---- MODULE Spec2Model ----
(***************************************************************************)
(* Plan <-> Kanban-card synchronisation of SDaily-Planner: the remote      *)
(* store (plans, kanban_cards), the local mirrors kept by the data         *)
(* provider, the board's derived view and ignore list, and the             *)
(* asynchronous operations addCard, updateCard, deleteCard, handleDragEnd  *)
(* and the refetches.                                                      *)
(*                                                                         *)
(* Every request to the remote store is one step; a handler runs from one  *)
(* await to the next in one step.  Left out: time slots, goals, revenues   *)
(* and custom-section management (no operation modelled here reads them).  *)
(* Positions are numbers of a format with a smallest step (1 here, the     *)
(* gap between neighbouring doubles in the code); a half that falls        *)
(* between two steps is rounded to the even one, as the doubles of the     *)
(* code are.  A remote call that fails returns false or null as the        *)
(* service does; the service catches nothing that would make its promise   *)
(* reject.                                                                 *)
(***************************************************************************)
EXTENDS Integers, Sequences, FiniteSets, TLC

(***************************************************************************)
(* Bounds of the model.                                                    *)
(***************************************************************************)
\* Calendar days are 1..MaxDay.
MaxDay == 3
\* Instants per calendar day (the first is the start of the day).
TicksPerDay == 2
\* Operations started in one behaviour of the board: the user's operations
\* and the refetches that change notifications start.
MaxOps == 2
\* Remote calls that fail in one behaviour.
MaxFails == 1
\* Largest position of a stored card of the board of drags (SpecPos).
MaxPos == 4

\* A date is a day, `undefined` (NoDate) or `null` (NullDate): the client drops
\* an undefined column from an update and writes a null one.
NoDate == 0
NullDate == -1
NoPlanId == 0
Days == 1..MaxDay
Present(d) == d > 0
Instants == TicksPerDay..((MaxDay + 1) * TicksPerDay - 1)

\* `undefined` position of a card object (a number otherwise).
NoPos == -1

DefaultStatuses == {"inbox", "pending", "in-progress", "completed"}
CustomStatuses == {"custom-1"}
Statuses == DefaultStatuses \cup CustomStatuses

(***************************************************************************)
(* Identifiers.  A card id is either a generated uuid or the string        *)
(* plan-<planId>; k tells which, so that startsWith('plan-') and           *)
(* replace('plan-', '') are computed, not assumed.                         *)
(***************************************************************************)
Uuid(n) == [k |-> "uuid", n |-> n]
PlanCardId(planId) == [k |-> "plan", n |-> planId]
StartsWithPlan(id) == id.k = "plan"
StripPlanPrefix(id) == id.n
StartsWithCustom(status) == status \in CustomStatuses

(***************************************************************************)
(* date-fns on date-only strings: parseISO gives the start of the day.     *)
(***************************************************************************)
parseISO(d) == d * TicksPerDay
startOfDay(t) == t - (t % TicksPerDay)
endOfDay(t) == startOfDay(t) + TicksPerDay - 1
isToday(t, now) == startOfDay(t) = startOfDay(now)
\* new Date().toISOString() cut to its day.
todayStr(now) == now \div TicksPerDay

\* src/lib/utils.ts: overdue once the current instant is after the end of
\* the target day.
isOverdue(date, dueDate, completed, now) ==
    IF completed \/ ~Present(date) THEN FALSE
    ELSE LET targetDateStr == IF Present(dueDate) THEN dueDate ELSE date
         IN  now > endOfDay(parseISO(targetDateStr))

\* A faulty variant of determineCardStatus: without the rule for overdue
\* plans.
determineCardStatusNoOverdue(plan, now) ==
    IF plan.completed THEN "completed"
    ELSE LET today == startOfDay(now)
             startDate == parseISO(plan.date)
             endDate == IF plan.hasDueDate /\ Present(plan.dueDate)
                        THEN parseISO(plan.dueDate) ELSE startDate
         IN  IF isToday(startDate, now)
                \/ (startDate <= today /\ endDate >= today)
             THEN "in-progress"
             ELSE IF startDate > today
                     \/ (plan.hasDueDate /\ today < startDate)
             THEN "pending"
             ELSE "inbox"

determineCardStatus(plan, now) ==
    IF plan.completed THEN "completed"
    ELSE LET today == startOfDay(now)
             startDate == parseISO(plan.date)
             endDate == IF plan.hasDueDate /\ Present(plan.dueDate)
                        THEN parseISO(plan.dueDate) ELSE startDate
         IN  IF isOverdue(plan.date, plan.dueDate, plan.completed, now)
             THEN "in-progress"
             ELSE IF isToday(startDate, now)
                     \/ (startDate <= today /\ endDate >= today)
             THEN "in-progress"
             ELSE IF startDate > today
                     \/ (plan.hasDueDate /\ today < startDate)
             THEN "pending"
             ELSE "inbox"

planToCard(plan, now) ==
    [id |-> PlanCardId(plan.id),
     title |-> plan.title,
     description |-> plan.description,
     status |-> determineCardStatus(plan, now),
     startDate |-> plan.date,
     endDate |-> IF plan.hasDueDate THEN plan.dueDate ELSE plan.date,
     checklist |-> <<>>,
     comments |-> <<>>,
     attachments |-> plan.attachments,
     position |-> NoPos,
     linkedPlanId |-> plan.id]

(***************************************************************************)
(* Sequence helpers (Array.map, Array.filter, Array.some, Array.findIndex) *)
(***************************************************************************)
Range(s) == {s[i] : i \in DOMAIN s}
Truthy(position) == position # NoPos /\ position # 0

\* kanbanCards.findIndex(c => c.linkedPlanId === planId); 0 when none.
findLinkedIndex(kanbanCards, planId) ==
    IF \E i \in DOMAIN kanbanCards : kanbanCards[i].linkedPlanId = planId
    THEN CHOOSE i \in DOMAIN kanbanCards :
            /\ kanbanCards[i].linkedPlanId = planId
            /\ \A j \in 1..(i - 1) : kanbanCards[j].linkedPlanId # planId
    ELSE 0

\* The merge without the rule for the status: the stored status always wins.
mergeCardStoredStatus(existing, plan, now) ==
    [planToCard(plan, now) EXCEPT
        !.checklist = existing.checklist,
        !.comments = existing.comments,
        !.position = IF Truthy(existing.position)
                     THEN existing.position ELSE planToCard(plan, now).position,
        !.status = existing.status]

\* The entry the sync effect writes over an existing card linked to the plan.
mergeCard(existing, plan, now) ==
    LET newCard == planToCard(plan, now)
    IN  [newCard EXCEPT
            !.checklist = existing.checklist,
            !.comments = existing.comments,
            !.position = IF Truthy(existing.position)
                         THEN existing.position ELSE newCard.position,
            !.status = IF StartsWithCustom(existing.status) THEN existing.status
                       ELSE IF existing.status = "completed" THEN "completed"
                       ELSE newCard.status]

\* plans.forEach(...) of the sync effect, from plan number i on.
RECURSIVE syncPlans(_, _, _, _, _)
syncPlans(kanbanCards, planList, ignored, now, i) ==
    IF i > Len(planList) THEN kanbanCards
    ELSE LET plan == planList[i]
             idx == findLinkedIndex(kanbanCards, plan.id)
             next == IF plan.id \in ignored THEN kanbanCards
                     ELSE IF idx > 0
                     THEN [kanbanCards EXCEPT
                              ![idx] = mergeCard(kanbanCards[idx], plan, now)]
                     ELSE Append(kanbanCards, planToCard(plan, now))
         IN  syncPlans(next, planList, ignored, now, i + 1)

\* The filter of the sync effect.
keepCard(card, planList, ignored) ==
    IF card.linkedPlanId # NoPlanId
    THEN /\ card.linkedPlanId \notin ignored
         /\ \E i \in DOMAIN planList : planList[i].id = card.linkedPlanId
    ELSE TRUE

\* The list the sync effect hands to setCards.
deriveView(rawList, planList, ignored, now) ==
    LET synced == syncPlans(rawList, planList, ignored, now, 1)
        Keep(c) == keepCard(c, planList, ignored)
    IN  SelectSeq(synced, Keep)

(***************************************************************************)
(* Card -> plan conversions.                                               *)
(***************************************************************************)
\* planUpdate of syncCardToPlanner (the card has a linkedPlanId).
syncPlanUpdate(card, now) ==
    [id |-> card.linkedPlanId,
     title |-> card.title,
     description |-> card.description,
     date |-> IF Present(card.startDate) THEN card.startDate ELSE todayStr(now),
     dueDate |-> card.endDate,
     hasDueDate |-> /\ Present(card.startDate)
                    /\ Present(card.endDate)
                    /\ card.startDate # card.endDate,
     attachments |-> card.attachments,
     completed |-> card.status = "completed"]

\* newPlan of createPlanFromCard.
newPlanFromCard(card, planId) ==
    [id |-> planId,
     title |-> card.title,
     description |-> card.description,
     date |-> card.startDate,
     hasDueDate |-> Present(card.endDate) /\ card.startDate # card.endDate,
     dueDate |-> card.endDate,
     attachments |-> card.attachments,
     completed |-> card.status = "completed"]

\* planUpdate of the remote updateCard for a plan- id.
remotePlanUpdate(card, now) ==
    [id |-> StripPlanPrefix(card.id),
     title |-> card.title,
     description |-> card.description,
     date |-> IF Present(card.startDate) THEN card.startDate ELSE todayStr(now),
     hasDueDate |-> Present(card.endDate),
     dueDate |-> card.endDate,
     completed |-> card.status = "completed",
     attachments |-> card.attachments]

(***************************************************************************)
(* The remote store.  plansTable and cardsTable are sets of rows; a card's *)
(* checklist, comment and attachment rows and a plan's attachment rows are *)
(* kept in the row they belong to.                                         *)
(***************************************************************************)
OrNull(d) == IF Present(d) THEN d ELSE NullDate
OrZero(position) == IF Truthy(position) THEN position ELSE 0

\* supabase.from('plans').update({...}).eq('id', plan.id), then the
\* plan_attachments rows replaced; an undefined column is left as it is.
updatePlanRows(plansTable, plan) ==
    {IF row.id = plan.id
     THEN [row EXCEPT
              !.title = plan.title,
              !.description = plan.description,
              !.date = plan.date,
              !.hasDueDate = plan.hasDueDate,
              !.dueDate = IF plan.dueDate = NoDate THEN @ ELSE plan.dueDate,
              !.completed = plan.completed,
              !.attachments = plan.attachments]
     ELSE row : row \in plansTable}

\* supabase.from('plans').insert({...}) of createPlan.
insertPlanRow(plansTable, plan) ==
    plansTable \cup {[plan EXCEPT !.dueDate = OrNull(plan.dueDate)]}

\* The row createCard inserts (no position column) with its child rows.
createCardRow(card) ==
    [card EXCEPT !.startDate = OrNull(card.startDate),
                 !.endDate = OrNull(card.endDate),
                 !.position = NoPos]

\* A faulty variant of promotedCardRow: the row keeps the id of the card.
promotedCardRowKeepsId(card, newCardId, planId) ==
    [card EXCEPT !.startDate = OrNull(card.startDate),
                 !.endDate = OrNull(card.endDate),
                 !.attachments = <<>>,
                 !.position = OrZero(card.position),
                 !.linkedPlanId = planId]

\* The row the remote updateCard inserts when it promotes a plan- card.
promotedCardRow(card, newCardId, planId) ==
    [id |-> newCardId,
     title |-> card.title,
     description |-> card.description,
     status |-> card.status,
     startDate |-> OrNull(card.startDate),
     endDate |-> OrNull(card.endDate),
     checklist |-> card.checklist,
     comments |-> card.comments,
     attachments |-> <<>>,
     position |-> OrZero(card.position),
     linkedPlanId |-> planId]

\* The remote updateCard's update of the row with card.id, children replaced.
updateCardRows(cardsTable, card) ==
    {IF row.id = card.id
     THEN [row EXCEPT
              !.title = card.title,
              !.description = card.description,
              !.status = card.status,
              !.startDate = OrNull(card.startDate),
              !.endDate = OrNull(card.endDate),
              !.linkedPlanId = card.linkedPlanId,
              !.position = OrZero(card.position),
              !.checklist = card.checklist,
              !.comments = card.comments,
              !.attachments = card.attachments]
     ELSE row : row \in cardsTable}

\* deletePlan, steps 1 and 3: the plan's attachment rows deleted, every card
\* that references the plan unlinked.
unlinkCardRows(cardsTable, planId) ==
    {IF row.linkedPlanId = planId
     THEN [row EXCEPT !.linkedPlanId = NoPlanId] ELSE row : row \in cardsTable}

linkedRows(cardsTable, planId) == {row \in cardsTable : row.linkedPlanId = planId}

\* A faulty variant of selectSingleLinked: the existing card is never found.
selectNoLinked(cardsTable, planId) == Uuid(0)

\* .select('id').eq('linked_plan_id', planId).single(): the row's id when
\* exactly one row matches, no data otherwise.
selectSingleLinked(cardsTable, planId) ==
    IF Cardinality(linkedRows(cardsTable, planId)) = 1
    THEN (CHOOSE row \in linkedRows(cardsTable, planId) : TRUE).id
    ELSE Uuid(0)

\* The card carries data that a plan cannot hold.
\* The condition reduced to the checklist.
needsChecklistOnly(card) == Len(card.checklist) > 0

needsRealCard(card) ==
    \/ Len(card.checklist) > 0
    \/ Len(card.comments) > 0
    \/ card.position # NoPos
    \/ card.status = "completed"

\* ORDER BY of the two fetches.
PlanBefore(a, b) == a.date < b.date \/ (a.date = b.date /\ a.id < b.id)
PosKey(row) == IF row.position = NoPos THEN 1000000 ELSE row.position
CardBefore(a, b) ==
    \/ PosKey(a) < PosKey(b)
    \/ (PosKey(a) = PosKey(b) /\ a.id.n > b.id.n)

RECURSIVE sortPlans(_)
sortPlans(rows) ==
    IF rows = {} THEN <<>>
    ELSE LET first == CHOOSE r \in rows : \A o \in rows \ {r} : PlanBefore(r, o)
         IN  <<first>> \o sortPlans(rows \ {first})

RECURSIVE sortCards(_)
sortCards(rows) ==
    IF rows = {} THEN <<>>
    ELSE LET first == CHOOSE r \in rows : \A o \in rows \ {r} : CardBefore(r, o)
         IN  <<first>> \o sortCards(rows \ {first})

fetchPlans(plansTable) == sortPlans(plansTable)

fetchCards(cardsTable) ==
    LET rows == sortCards(cardsTable)
    IN  [i \in DOMAIN rows |-> [rows[i] EXCEPT !.position = OrZero(@)]]

(***************************************************************************)
(* State.                                                                  *)
(***************************************************************************)
VARIABLES
    now,             \* the current instant (new Date())
    dbPlans,         \* remote table plans (with plan_attachments)
    dbCards,         \* remote table kanban_cards (with its child tables)
    plans,           \* DataProvider: plan mirror
    rawCards,        \* DataProvider: card mirror
    isLoading,       \* DataProvider: loading flag
    isInitialized,   \* DataProvider: the first load has finished
    cards,           \* KanbanBoard: the derived view
    ignoredPlanIds,  \* KanbanBoard: plan ids being deleted
    selectedCard,    \* KanbanBoard: the card open in the modal
    isSubmitting,    \* CardModal: a save is under way
    error,           \* KanbanBoard: the surfaced error message
    tasks,           \* asynchronous calls in flight, each at its await
    nextUuid,        \* generateUUID
    nOps,            \* operations started
    nFails,          \* remote calls that failed
    cardWrites,      \* ids named by an insert or update of kanban_cards
    unscheduled,     \* history: the unschedules of virtual cards that completed
    fnPlan,          \* input of the conversions checked on their own
    fnOut            \* their result

vars == <<now, dbPlans, dbCards, plans, rawCards, isLoading, isInitialized,
          cards, ignoredPlanIds, selectedCard, isSubmitting, error, tasks,
          nextUuid, nOps, nFails, cardWrites, unscheduled,
          fnPlan, fnOut>>

remoteVars == <<dbPlans, dbCards, cardWrites>>
mirrorVars == <<plans, rawCards, isLoading, isInitialized>>
boardVars == <<cards, ignoredPlanIds, selectedCard, isSubmitting, error>>
fnVars == <<fnPlan, fnOut>>
histVars == <<unscheduled>>

NoCard ==
    [id |-> Uuid(0), title |-> "", description |-> "", status |-> "inbox",
     startDate |-> NoDate, endDate |-> NoDate, checklist |-> <<>>,
     comments |-> <<>>, attachments |-> <<>>, position |-> NoPos,
     linkedPlanId |-> NoPlanId]

NoPlan ==
    [id |-> NoPlanId, title |-> "", description |-> "", date |-> NoDate,
     hasDueDate |-> FALSE, dueDate |-> NoDate, completed |-> FALSE,
     attachments |-> <<>>]

\* No conversion has been applied yet.
FnIdle == [op |-> "none", plan |-> NoPlan, status |-> ""]

\* The remote store when the page is opened.
InitPlan(id, title, date, hasDueDate, dueDate) ==
    [NoPlan EXCEPT !.id = id, !.title = title, !.date = date,
                   !.hasDueDate = hasDueDate, !.dueDate = dueDate,
                   !.attachments = <<"file">>]

InitCard(n, title, status, linkedPlanId) ==
    [NoCard EXCEPT !.id = Uuid(n), !.title = title, !.status = status,
                   !.startDate = NullDate, !.endDate = NullDate,
                   !.position = 1000, !.linkedPlanId = linkedPlanId]

\* Plan 1 has a real card linked to it, plan 2 has none; one card is on its own.
\* The card of plan 1 sits in a custom section.
InitPlans ==
    {InitPlan(1, "p1", 1, TRUE, MaxDay), InitPlan(2, "p2", MaxDay, FALSE, NullDate)}
InitCards ==
    {InitCard(3, "c3", "custom-1", 1), InitCard(4, "c4", "inbox", NoPlanId)}
FirstUuid == 5

\* A call in flight: type names the function, pc the await it is at.
NewTask(tid, type, pc) ==
    [tid |-> tid, type |-> type, pc |-> pc, ret |-> "",
     arg |-> NoCard,         \* updatedCard, the argument of updateCard
     card |-> NoCard,        \* the card the call works on (finalCard)
     aux |-> NoCard,         \* realCard of the unschedule path
     plan |-> NoPlan,        \* the plan handed to createPlan / updatePlan
     sel |-> NoPlanId,       \* selectedCard?.linkedPlanId of the closure
     bare |-> FALSE,         \* history: no card was linked to sel at the start
     orig |-> "",            \* history: status of the card when the call started
     local |-> FALSE,        \* history: the call has set a mirror, the view or
                             \* the ignore set
     at |-> 0,               \* history: destination.index of the drag
     rows |-> {},            \* history: ids of the rows linked to the plan when
                             \* deleteCard or updateCard started
     planId |-> NoPlanId,    \* planId of deletePlan and of the remote updateCard
     ok |-> TRUE,            \* result of the remote call awaited
     found |-> Uuid(0),      \* existingCard?.id
     gotP |-> FALSE, gotC |-> FALSE, pdata |-> <<>>, cdata |-> <<>>]

\* The sync effect: it runs when one of its dependencies changed and
\* returns early while the data is loading.
syncEffect(view, rawList, planList, ignored, loading, t) ==
    IF loading THEN view ELSE deriveView(rawList, planList, ignored, t)

MayFail == nFails < MaxFails

\* A name for a new call: the k-th smallest number that names no call in flight.
FreeTid(k) ==
    LET used == {t.tid : t \in tasks}
        free == (0..(Cardinality(tasks) + k)) \ used
    IN  CHOOSE n \in free : Cardinality({m \in free : m < n}) = k

Put(t, t2) == IF t2.pc = "done" THEN tasks \ {t} ELSE (tasks \ {t}) \cup {t2}
Failures == IF MayFail THEN BOOLEAN ELSE {FALSE}
Count(fail) == IF fail THEN nFails + 1 ELSE nFails
PlanExists(planId) == \E row \in dbPlans : row.id = planId
\* The history of a card ends when the user acts on the card again.
Forget(id) == {u \in unscheduled : u.card # id}

(***************************************************************************)
(* DataProvider: refetches.                                                *)
(***************************************************************************)
\* fetchPlans() reads the table.
FetchPlansRead(t) ==
    /\ t.pc = "fetch" /\ ~t.gotP
    /\ t.type \in {"refreshAll", "initialLoad", "refreshPlans"}
    /\ tasks' = Put(t, [t EXCEPT !.gotP = TRUE, !.pdata = fetchPlans(dbPlans)])
    /\ UNCHANGED <<now, remoteVars, mirrorVars, boardVars, nextUuid, nOps,
                   nFails, histVars, fnVars>>

\* fetchCards() reads the table.
FetchCardsRead(t) ==
    /\ t.pc = "fetch" /\ ~t.gotC
    /\ t.type \in {"refreshAll", "initialLoad", "refreshCards"}
    /\ tasks' = Put(t, [t EXCEPT !.gotC = TRUE, !.cdata = fetchCards(dbCards)])
    /\ UNCHANGED <<now, remoteVars, mirrorVars, boardVars, nextUuid, nOps,
                   nFails, histVars, fnVars>>

\* refreshAll resumes after Promise.all: both mirrors set, loading cleared;
\* the first load then sets isInitialized.
RefreshAllDone(t) ==
    /\ t.type \in {"refreshAll", "initialLoad"} /\ t.gotP /\ t.gotC
    /\ plans' = t.pdata
    /\ rawCards' = t.cdata
    /\ isLoading' = FALSE
    /\ isInitialized' = (isInitialized \/ t.type = "initialLoad")
    /\ cards' = syncEffect(cards, rawCards', plans', ignoredPlanIds, isLoading', now)
    /\ tasks' = tasks \ {t}
    /\ UNCHANGED <<now, remoteVars, ignoredPlanIds, selectedCard, isSubmitting,
                   error, nextUuid, nOps, nFails, histVars, fnVars>>

\* The realtime subscriptions: a change notification of table plans or
\* kanban_cards arrives, at any time after the change, and refreshPlans(true)
\* or refreshCards(true) is called.
Notified(table) ==
    /\ isInitialized
    /\ nOps < MaxOps
    /\ IF table = "plans" THEN dbPlans # InitPlans
       ELSE dbCards # InitCards \/ cardWrites # {}
    /\ nOps' = nOps + 1
    /\ tasks' = tasks \cup
          {NewTask(FreeTid(0),
                   IF table = "plans" THEN "refreshPlans" ELSE "refreshCards",
                   "fetch")}
    /\ UNCHANGED <<now, remoteVars, mirrorVars, boardVars, nextUuid, nFails,
                   histVars, fnVars>>

\* refreshPlans(true) resumes: the plan mirror is set, the flag is not touched.
RefreshPlansDone(t) ==
    /\ t.type = "refreshPlans" /\ t.gotP
    /\ plans' = t.pdata
    /\ cards' = syncEffect(cards, rawCards, plans', ignoredPlanIds, isLoading, now)
    /\ tasks' = tasks \ {t}
    /\ UNCHANGED <<now, remoteVars, rawCards, isLoading, isInitialized,
                   ignoredPlanIds, selectedCard, isSubmitting, error, nextUuid,
                   nOps, nFails, histVars, fnVars>>

\* refreshCards(true) resumes: the card mirror is set, the flag is not touched.
RefreshCardsDone(t) ==
    /\ t.type = "refreshCards" /\ t.gotC
    /\ rawCards' = t.cdata
    /\ cards' = syncEffect(cards, rawCards', plans, ignoredPlanIds, isLoading, now)
    /\ tasks' = tasks \ {t}
    /\ UNCHANGED <<now, remoteVars, plans, isLoading, isInitialized,
                   ignoredPlanIds, selectedCard, isSubmitting, error, nextUuid,
                   nOps, nFails, histVars, fnVars>>

(***************************************************************************)
(* supabaseService: the remote calls, one step per request.                *)
(***************************************************************************)
\* deletePlan, steps 1-3: plan_attachments and plan_time_slots rows deleted,
\* cards that reference the plan unlinked.
DeletePlanUnlink(t) ==
    /\ t.pc = "dp.unlink"
    /\ dbPlans' = {IF row.id = t.planId THEN [row EXCEPT !.attachments = <<>>]
                   ELSE row : row \in dbPlans}
    /\ dbCards' = unlinkCardRows(dbCards, t.planId)
    /\ tasks' = Put(t, [t EXCEPT !.pc = "dp.delete"])
    /\ UNCHANGED <<now, cardWrites, mirrorVars, boardVars, nextUuid, nOps,
                   nFails, histVars, fnVars>>

\* deletePlan, step 4: the plan row deleted, unless a card references it
\* (foreign key) or the call fails.
DeletePlanDelete(t) ==
    /\ t.pc = "dp.delete"
    /\ \E fail \in Failures :
        LET blocked == linkedRows(dbCards, t.planId) # {}
            deleted == ~fail /\ ~blocked
        IN  /\ dbPlans' = IF deleted
                          THEN {row \in dbPlans : row.id # t.planId} ELSE dbPlans
            /\ nFails' = Count(fail)
            /\ tasks' = Put(t, [t EXCEPT !.pc = t.ret, !.ok = deleted])
    /\ UNCHANGED <<now, dbCards, cardWrites, mirrorVars, boardVars, nextUuid,
                   nOps, histVars, fnVars>>

\* updatePlan(t.plan), awaited by syncCardToPlanner.
UpdatePlanCall(t) ==
    /\ t.pc = "updatePlan"
    /\ \E fail \in Failures :
        /\ dbPlans' = IF fail THEN dbPlans ELSE updatePlanRows(dbPlans, t.plan)
        /\ nFails' = Count(fail)
        /\ tasks' = Put(t, [t EXCEPT !.pc = t.ret, !.ok = ~fail])
    /\ UNCHANGED <<now, dbCards, cardWrites, mirrorVars, boardVars, nextUuid,
                   nOps, histVars, fnVars>>

\* createPlan(t.plan), awaited by createPlanFromCard: the id comes back,
\* and updateCard attaches it to finalCard.
CreatePlanCall(t) ==
    /\ t.pc = "createPlan"
    /\ \E fail \in Failures :
        /\ dbPlans' = IF fail THEN dbPlans ELSE insertPlanRow(dbPlans, t.plan)
        /\ nFails' = Count(fail)
        /\ tasks' = Put(t, [t EXCEPT
                              !.pc = t.ret, !.ok = ~fail,
                              !.card.linkedPlanId = IF fail THEN @ ELSE t.plan.id])
    /\ UNCHANGED <<now, dbCards, cardWrites, mirrorVars, boardVars, nextUuid,
                   nOps, histVars, fnVars>>

\* createCard(t.aux).
CreateCardCall(t) ==
    /\ t.pc = "createCard"
    /\ \E fail \in Failures :
        /\ dbCards' = IF fail THEN dbCards ELSE dbCards \cup {createCardRow(t.aux)}
        /\ cardWrites' = cardWrites \cup {t.aux.id}
        /\ nFails' = Count(fail)
        /\ tasks' = Put(t, [t EXCEPT !.pc = t.ret, !.ok = ~fail])
    /\ UNCHANGED <<now, dbPlans, mirrorVars, boardVars, nextUuid, nOps,
                   histVars, fnVars>>

\* deleteCard(cardId) of the service.
DeleteCardCall(t) ==
    /\ t.pc = "deleteCardDB"
    /\ dbCards' = {row \in dbCards : row.id # t.card.id}
    /\ tasks' = Put(t, [t EXCEPT !.pc = "dc.finish"])
    /\ UNCHANGED <<now, dbPlans, cardWrites, mirrorVars, boardVars, nextUuid,
                   nOps, nFails, histVars, fnVars>>

(***************************************************************************)
(* supabaseService.updateCard(t.card).                                     *)
(***************************************************************************)
\* plan- id, step 1: updatePlan(planUpdate); false is returned when it fails.
RemoteUpdatePlan(t) ==
    /\ t.pc = "rc.updatePlan"
    /\ \E fail \in Failures :
        /\ dbPlans' = IF fail THEN dbPlans
                      ELSE updatePlanRows(dbPlans, remotePlanUpdate(t.card, now))
        /\ nFails' = Count(fail)
        /\ tasks' = Put(t, IF fail THEN [t EXCEPT !.pc = t.ret, !.ok = FALSE]
                           ELSE [t EXCEPT !.pc = "rc.select"])
    /\ UNCHANGED <<now, dbCards, cardWrites, mirrorVars, boardVars, nextUuid,
                   nOps, histVars, fnVars>>

\* plan- id, step 2: look for the real card of the plan, then either recurse
\* with its id, or create one when the card carries data, or return true.
RemoteSelect(t) ==
    /\ t.pc = "rc.select"
    /\ LET realCardId == selectSingleLinked(dbCards, StripPlanPrefix(t.card.id))
       IN  tasks' = Put(t,
              IF realCardId # Uuid(0)
              THEN [t EXCEPT !.pc = "rc.update", !.found = realCardId,
                             !.planId = StripPlanPrefix(t.card.id),
                             !.card.id = realCardId, !.card.attachments = <<>>]
              ELSE IF needsRealCard(t.card)
              THEN [t EXCEPT !.pc = "rc.insert",
                             !.planId = StripPlanPrefix(t.card.id)]
              ELSE [t EXCEPT !.pc = t.ret, !.ok = TRUE])
    /\ UNCHANGED <<now, remoteVars, mirrorVars, boardVars, nextUuid, nOps,
                   nFails, histVars, fnVars>>

\* plan- id: insert of the promoted card, linked to the plan.  A missing
\* plan is foreign-key error 23503 and leads to the retry without the link.
RemoteInsert(t) ==
    /\ t.pc = "rc.insert"
    /\ \E fail \in Failures :
        LET planId == StripPlanPrefix(t.card.id)
            newCardId == Uuid(nextUuid)
            fk == ~PlanExists(planId)
        IN  /\ cardWrites' = cardWrites \cup {newCardId}
            /\ dbCards' = IF fail \/ fk THEN dbCards
                          ELSE dbCards \cup {promotedCardRow(t.card, newCardId, planId)}
            /\ nFails' = IF fk THEN nFails ELSE Count(fail)
            /\ tasks' = Put(t, IF fk THEN [t EXCEPT !.pc = "rc.retry", !.found = newCardId]
                               ELSE [t EXCEPT !.pc = t.ret, !.ok = ~fail])
    /\ nextUuid' = nextUuid + 1
    /\ UNCHANGED <<now, dbPlans, mirrorVars, boardVars, nOps, histVars, fnVars>>

\* plan- id: the retry with linked_plan_id null.
RemoteRetry(t) ==
    /\ t.pc = "rc.retry"
    /\ \E fail \in Failures :
        /\ cardWrites' = cardWrites \cup {t.found}
        /\ dbCards' = IF fail THEN dbCards
                      ELSE dbCards \cup {promotedCardRow(t.card, t.found, NoPlanId)}
        /\ nFails' = Count(fail)
        /\ tasks' = Put(t, [t EXCEPT !.pc = t.ret, !.ok = ~fail])
    /\ UNCHANGED <<now, dbPlans, mirrorVars, boardVars, nextUuid, nOps,
                   histVars, fnVars>>

\* Generated id: update of the row and of its child rows.  A link to a
\* plan that does not exist is a foreign-key error.
RemoteUpdate(t) ==
    /\ t.pc = "rc.update"
    /\ \E fail \in Failures :
        LET fk == /\ t.card.linkedPlanId # NoPlanId
                  /\ ~PlanExists(t.card.linkedPlanId)
                  /\ \E row \in dbCards : row.id = t.card.id
            failed == fail \/ fk
        IN  /\ cardWrites' = cardWrites \cup {t.card.id}
            /\ dbCards' = IF failed THEN dbCards ELSE updateCardRows(dbCards, t.card)
            /\ nFails' = IF fk THEN nFails ELSE Count(fail)
            /\ tasks' = Put(t, [t EXCEPT !.pc = t.ret, !.ok = ~failed])
    /\ UNCHANGED <<now, dbPlans, mirrorVars, boardVars, nextUuid, nOps,
                   histVars, fnVars>>

(***************************************************************************)
(* KanbanBoard: helpers of the handlers.                                   *)
(***************************************************************************)
RECURSIVE insertByPosition(_, _)
insertByPosition(x, sorted) ==
    IF sorted = <<>> THEN <<x>>
    ELSE IF OrZero(Head(sorted).position) <= OrZero(x.position)
    THEN <<Head(sorted)>> \o insertByPosition(x, Tail(sorted))
    ELSE <<x>> \o sorted

\* list.sort((a, b) => (a.position || 0) - (b.position || 0)), a stable sort.
RECURSIVE sortByPosition(_)
sortByPosition(list) ==
    IF list = <<>> THEN <<>>
    ELSE insertByPosition(list[Len(list)],
                          sortByPosition(SubSeq(list, 1, Len(list) - 1)))

\* cards.filter(c => c.status === status && c.id !== exceptId), sorted.
columnCards(view, status, exceptId) ==
    LET In(c) == c.status = status /\ c.id # exceptId
    IN  sortByPosition(SelectSeq(view, In))

getColumnCards(view, status) == columnCards(view, status, Uuid(0))

\* cards.find(c => c.id === id) as an index; 0 when there is none.
findIndexById(view, id) ==
    IF \E i \in DOMAIN view : view[i].id = id
    THEN CHOOSE i \in DOMAIN view :
            view[i].id = id /\ \A j \in 1..(i - 1) : view[j].id # id
    ELSE 0

\* x / 2 in the number format of positions: exact when x is even, else the
\* even one of the two neighbouring numbers (round half to even).
half(x) ==
    IF x % 2 = 0 THEN x \div 2
    ELSE IF ((x + 1) \div 2) % 2 = 0 THEN (x + 1) \div 2
    ELSE (x - 1) \div 2

\* The position handleDragEnd gives a card dropped at index of destCards.
newPosition(destCards, index) ==
    IF Len(destCards) = 0 THEN 1000
    ELSE IF index = 0 THEN half(OrZero(destCards[1].position))
    ELSE IF index >= Len(destCards)
    THEN OrZero(destCards[Len(destCards)].position) + 1000
    ELSE half(OrZero(destCards[index].position)
              + OrZero(destCards[index + 1].position))

replaceById(list, id, card) ==
    [i \in DOMAIN list |-> IF list[i].id = id THEN card ELSE list[i]]

removeById(list, id) ==
    LET Keep(c) == c.id # id IN SelectSeq(list, Keep)

\* The status updateCard gives a card that has a start date.
autoStatus(card, t) ==
    IF card.status = "completed" \/ StartsWithCustom(card.status)
    THEN card.status
    ELSE LET today == startOfDay(t)
             startDate == parseISO(card.startDate)
             endDate == IF Present(card.endDate)
                        THEN parseISO(card.endDate) ELSE startDate
         IN  IF isToday(startDate, t) \/ (startDate <= today /\ endDate >= today)
             THEN "in-progress"
             ELSE IF isOverdue(card.startDate, card.endDate, FALSE, t)
             THEN "in-progress"
             ELSE IF startDate > today THEN "pending"
             ELSE card.status

\* finalCard of updateCard before its first await.
finalCardOf(updatedCard, t) ==
    IF ~Present(updatedCard.startDate)
    THEN [updatedCard EXCEPT
             !.status = IF StartsWithCustom(@) THEN @ ELSE "inbox"]
    ELSE [updatedCard EXCEPT !.status = autoStatus(updatedCard, t)]

\* A faulty variant of realCardOf: the link to the plan is kept.
realCardKeepsLink(finalCard, newCardId) == [finalCard EXCEPT !.id = newCardId]

\* realCard of the unschedule path of updateCard.
realCardOf(finalCard, newCardId) ==
    [finalCard EXCEPT !.id = newCardId, !.linkedPlanId = NoPlanId]

MaxOf(S) == CHOOSE x \in S : \A y \in S : y <= x

\* newCard of addCard.
newCardOf(view, status, newCardId, title) ==
    [NoCard EXCEPT
        !.id = newCardId, !.title = title, !.status = status,
        !.position = MaxOf({0} \cup {OrZero(view[i].position) : i \in DOMAIN view})
                     + 1000]

(***************************************************************************)
(* KanbanBoard and CardModal: the handlers.                                *)
(***************************************************************************)
\* Inputs of the handlers, drawn from small sets.
DragDests == {"pending", "completed"}
AddDests == {"inbox"}
NewTitle == "new"
ModalOpen == selectedCard # NoCard

openCard(i) ==
    /\ ~ModalOpen
    /\ i \in DOMAIN cards
    /\ selectedCard' = cards[i]
    /\ isSubmitting' = FALSE
    /\ UNCHANGED <<now, remoteVars, mirrorVars, cards, ignoredPlanIds, error,
                   tasks, nextUuid, nOps, nFails, histVars, fnVars>>

\* The card handleSave hands to onUpdate: the form's fields over the card.
\* edit names what the user changed in the form.
Edits == {"clearStart", "addItem", "reschedule"}
formDate(d) == IF Present(d) THEN d ELSE NoDate
savedCard(card, edit) ==
    LET base == [card EXCEPT !.startDate = formDate(@), !.endDate = formDate(@)]
    IN  CASE edit = "none" -> base
          [] edit = "clearStart" -> [base EXCEPT !.startDate = NoDate]
          [] edit = "addItem" -> [base EXCEPT !.checklist = Append(@, "item")]
          [] edit = "reschedule" -> [base EXCEPT !.startDate = MaxDay,
                                                 !.endDate = NoDate]

\* The card saveCardChanges hands to onUpdate.
unscheduledCard(card) ==
    [card EXCEPT !.startDate = NoDate, !.endDate = NoDate, !.status = "inbox"]

\* updateCard(updatedCard) up to its first await.  A real card without a
\* start date and without a linked plan reaches the optimistic update and
\* the call of the remote updateCard at once.
updateCard(updatedCard, closes) ==
    LET sel == selectedCard.linkedPlanId
        finalCard == finalCardOf(updatedCard, now)
        cleared == ~Present(updatedCard.startDate)
        virtual == StartsWithPlan(updatedCard.id)
        base == [NewTask(FreeTid(0), "updateCard", "") EXCEPT
                    !.arg = updatedCard, !.card = finalCard, !.sel = sel,
                    !.bare = (linkedRows(dbCards, sel) = {}),
                    !.rows = {row.id : row \in linkedRows(dbCards, sel)},
                    !.orig = selectedCard.status]
        atOnce == cleared /\ ~virtual /\ sel = NoPlanId
        task ==
            IF cleared
            THEN IF virtual
                 THEN [base EXCEPT !.pc = "createCard", !.ret = "uc.afterCreate",
                                   !.aux = realCardOf(finalCard, Uuid(nextUuid))]
                 ELSE IF sel # NoPlanId
                 THEN [base EXCEPT !.pc = "dp.unlink", !.planId = sel,
                                   !.ret = "uc.unlinked"]
                 ELSE [base EXCEPT !.pc = "rc.update", !.ret = "uc.finish",
                                   !.local = TRUE]
            ELSE IF finalCard.linkedPlanId = NoPlanId
            THEN [base EXCEPT !.pc = "createPlan", !.ret = "uc.optimistic",
                              !.plan = newPlanFromCard(finalCard, nextUuid)]
            ELSE [base EXCEPT !.pc = "updatePlan", !.ret = "uc.optimistic",
                              !.plan = syncPlanUpdate(finalCard, now)]
    IN  /\ nOps < MaxOps
        /\ nOps' = nOps + 1
        /\ tasks' = tasks \cup {task}
        /\ nextUuid' = IF task.pc \in {"createCard", "createPlan"}
                       THEN nextUuid + 1 ELSE nextUuid
        /\ rawCards' = IF atOnce
                       THEN replaceById(rawCards, finalCard.id, finalCard)
                       ELSE rawCards
        /\ cards' = IF atOnce
                    THEN syncEffect(cards, rawCards', plans, ignoredPlanIds,
                                    isLoading, now)
                    ELSE cards
        /\ selectedCard' = IF closes THEN NoCard ELSE selectedCard
        /\ isSubmitting' = TRUE
        /\ unscheduled' = Forget(updatedCard.id)
        /\ UNCHANGED <<now, remoteVars, plans, isLoading, isInitialized,
                       ignoredPlanIds, error, nFails, fnVars>>

\* CardModal: the close button or the backdrop: handleSave(); onClose().
handleSave(edit) ==
    /\ ModalOpen /\ ~isSubmitting
    /\ updateCard(savedCard(selectedCard, edit), TRUE)

\* CardModal: the Scheduled checkbox unticked.
saveCardChanges ==
    /\ ModalOpen /\ ~isSubmitting
    /\ updateCard(unscheduledCard(selectedCard), FALSE)

\* CardModal: the close button while a save is under way: onClose() alone.
onClose ==
    /\ ModalOpen /\ isSubmitting
    /\ selectedCard' = NoCard
    /\ UNCHANGED <<now, remoteVars, mirrorVars, cards, ignoredPlanIds,
                   isSubmitting, error, tasks, nextUuid, nOps, nFails, histVars, fnVars>>

\* The board's refreshAll(true): the provider hands out () => refreshAll(false),
\* so the loading flag is raised before the two fetches are issued.
refreshAllTask(tid) == NewTask(tid, "refreshAll", "fetch")

\* A faulty variant of UpdateCardAfterCreate: the result of createCard is not
\* looked at.
UpdateCardAfterCreateUnchecked(t) ==
    /\ t.pc = "uc.afterCreate"
    /\ ignoredPlanIds' = ignoredPlanIds \cup {t.sel}
    /\ cards' = syncEffect(cards, rawCards, plans, ignoredPlanIds', isLoading, now)
    /\ tasks' = Put(t, [t EXCEPT !.pc = "dp.unlink", !.planId = t.sel,
                                 !.ret = "uc.replace", !.local = TRUE])
    /\ UNCHANGED <<now, remoteVars, mirrorVars, selectedCard, isSubmitting,
                   error,
                   nextUuid, nOps, nFails, histVars, fnVars>>

\* updateCard resumes after createCard(realCard): an error is surfaced when
\* it failed; else the plan is ignored at once and deletePlan is called.
UpdateCardAfterCreate(t) ==
    /\ t.pc = "uc.afterCreate"
    /\ IF ~t.ok
       THEN /\ error' = "Failed to unschedule card. Please try again."
            /\ tasks' = tasks \ {t}
            /\ UNCHANGED <<ignoredPlanIds, cards, rawCards, plans,
                           selectedCard>>
       ELSE IF t.sel # NoPlanId
       THEN /\ ignoredPlanIds' = ignoredPlanIds \cup {t.sel}
            /\ cards' = syncEffect(cards, rawCards, plans, ignoredPlanIds',
                                   isLoading, now)
            /\ tasks' = Put(t, [t EXCEPT !.pc = "dp.unlink", !.planId = t.sel,
                                         !.ret = "uc.replace", !.local = TRUE])
            /\ UNCHANGED <<error, rawCards, plans, selectedCard>>
       ELSE /\ rawCards' = Append(removeById(rawCards, t.card.id), t.aux)
            /\ plans' = plans
            /\ cards' = syncEffect(cards, rawCards', plans', ignoredPlanIds,
                                   isLoading, now)
            /\ selectedCard' = NoCard
            /\ tasks' = tasks \ {t}
            /\ UNCHANGED <<error, ignoredPlanIds>>
    /\ UNCHANGED <<now, remoteVars, isLoading, isInitialized, isSubmitting,
                   nextUuid, nOps, nFails, histVars, fnVars>>

\* updateCard resumes after deletePlan: the virtual card is replaced by the
\* real one in the mirrors and the modal is closed.
UpdateCardReplace(t) ==
    /\ t.pc = "uc.replace"
    /\ rawCards' = Append(removeById(rawCards, t.card.id), t.aux)
    /\ plans' = LET Keep(p) == p.id # t.sel IN SelectSeq(plans, Keep)
    /\ cards' = syncEffect(cards, rawCards', plans', ignoredPlanIds, isLoading, now)
    /\ selectedCard' = NoCard
    /\ tasks' = tasks \ {t}
    /\ unscheduled' = unscheduled \cup
          {[plan |-> t.sel, card |-> t.aux.id, bare |-> t.bare,
            rows |-> t.rows, deleted |-> t.ok]}
    /\ UNCHANGED <<now, remoteVars, isLoading, isInitialized, ignoredPlanIds,
                   isSubmitting, error, nextUuid, nOps, nFails, fnVars>>

\* updateCard resumes after the plan was created, updated or (for a real card
\* whose linked plan was deleted) unlinked: the optimistic update of the
\* mirrors, then the remote updateCard is called.
UpdateCardOptimistic(t) ==
    /\ t.pc \in {"uc.optimistic", "uc.unlinked"}
    /\ LET finalCard == IF t.pc = "uc.unlinked"
                        THEN [t.card EXCEPT !.linkedPlanId = NoPlanId] ELSE t.card
           Keep(p) == p.id # t.sel
       IN  /\ plans' = IF ~Present(finalCard.startDate) /\ t.sel # NoPlanId
                       THEN SelectSeq(plans, Keep) ELSE plans
           /\ rawCards' = replaceById(rawCards, finalCard.id, finalCard)
           /\ tasks' = Put(t, [t EXCEPT
                                 !.card = finalCard,
                                 !.local = TRUE,
                                 !.planId = NoPlanId,
                                 !.pc = IF StartsWithPlan(finalCard.id)
                                        THEN "rc.updatePlan" ELSE "rc.update",
                                 !.ret = "uc.finish"])
    /\ cards' = syncEffect(cards, rawCards', plans', ignoredPlanIds, isLoading, now)
    /\ UNCHANGED <<now, remoteVars, isLoading, isInitialized, ignoredPlanIds,
                   selectedCard, isSubmitting, error, nextUuid, nOps,
                   nFails, histVars, fnVars>>

\* A faulty variant of UpdateCardFinish: on failure the card handed to
\* updateCard is put back into the card mirror.
UpdateCardFinishReverting(t) ==
    /\ t.pc = "uc.finish"
    /\ IF t.ok
       THEN /\ isLoading' = TRUE
            /\ tasks' = (tasks \ {t}) \cup {refreshAllTask(t.tid)}
            /\ selectedCard' = NoCard
            /\ UNCHANGED <<error, rawCards, cards>>
       ELSE /\ error' = "Could not update card in database."
            /\ tasks' = tasks \ {t}
            /\ rawCards' = replaceById(rawCards, t.card.id, t.arg)
            /\ cards' = syncEffect(cards, rawCards', plans, ignoredPlanIds,
                                   isLoading, now)
            /\ UNCHANGED <<isLoading, selectedCard>>
    /\ UNCHANGED <<now, remoteVars, plans, isInitialized, ignoredPlanIds,
                   isSubmitting, nextUuid, nOps, nFails, histVars, fnVars>>

\* updateCard resumes after the remote updateCard: refreshAll(true) and the
\* modal closed, or the error surfaced.
UpdateCardFinish(t) ==
    /\ t.pc = "uc.finish"
    /\ IF t.ok
       THEN /\ isLoading' = TRUE
            /\ tasks' = (tasks \ {t}) \cup {refreshAllTask(t.tid)}
            /\ selectedCard' = NoCard
            /\ error' = error
       ELSE /\ error' = "Could not update card in database."
            /\ tasks' = tasks \ {t}
            /\ UNCHANGED <<isLoading, selectedCard>>
    /\ UNCHANGED <<now, remoteVars, plans, rawCards, isInitialized, cards,
                   ignoredPlanIds, isSubmitting, nextUuid, nOps, nFails, histVars, fnVars>>

\* deleteCard(cardId) up to its first await.
deleteCard ==
    /\ ModalOpen
    /\ nOps < MaxOps
    /\ LET cardId == selectedCard.id
           i == findIndexById(cards, cardId)
           linked == IF i = 0 THEN NoPlanId ELSE cards[i].linkedPlanId
           real == ~StartsWithPlan(cardId)
           Keep(p) == p.id # linked
           base == [NewTask(FreeTid(0), "deleteCard", "") EXCEPT
                       !.card.id = cardId, !.planId = linked, !.local = TRUE,
                       !.rows = {row.id : row \in linkedRows(dbCards, linked)}]
           after == IF real THEN "deleteCardDB" ELSE "dc.finish"
       IN  /\ rawCards' = removeById(rawCards, cardId)
           /\ plans' = IF linked # NoPlanId THEN SelectSeq(plans, Keep) ELSE plans
           /\ ignoredPlanIds' = IF linked # NoPlanId
                                THEN ignoredPlanIds \cup {linked}
                                ELSE ignoredPlanIds
           /\ tasks' = tasks \cup
                 {IF linked # NoPlanId
                  THEN [base EXCEPT !.pc = "dp.unlink", !.ret = after]
                  ELSE [base EXCEPT !.pc = after, !.ret = "dc.finish"]}
    /\ cards' = syncEffect(cards, rawCards', plans', ignoredPlanIds', isLoading, now)
    /\ nOps' = nOps + 1
    /\ unscheduled' = Forget(selectedCard.id)
    /\ UNCHANGED <<now, remoteVars, isLoading, isInitialized, selectedCard,
                   isSubmitting, error, nextUuid, nFails, fnVars>>

\* deleteCard resumes after its remote calls: refreshAll(true), modal closed.
DeleteCardFinish(t) ==
    /\ t.pc = "dc.finish"
    /\ isLoading' = TRUE
    /\ tasks' = (tasks \ {t}) \cup
          {[refreshAllTask(t.tid) EXCEPT !.planId = t.planId, !.rows = t.rows,
                                        !.ok = t.ok]}
    /\ selectedCard' = NoCard
    /\ UNCHANGED <<now, remoteVars, plans, rawCards, isInitialized, cards,
                   ignoredPlanIds, isSubmitting, error, nextUuid, nOps, nFails, histVars, fnVars>>

\* handleDragEnd for the view's entry i dropped at index of column newStatus.
handleDragEnd(i, newStatus, index) ==
    /\ ~ModalOpen
    /\ nOps < MaxOps
    /\ i \in DOMAIN cards
    /\ findIndexById(cards, cards[i].id) = i
    /\ LET cardLike == cards[i]
           draggableId == cardLike.id
           destCards == columnCards(cards, newStatus, draggableId)
           source == getColumnCards(cards, cardLike.status)
           sourceIndex == (CHOOSE k \in DOMAIN source : source[k].id = draggableId) - 1
           updatedCard == [cardLike EXCEPT
                              !.status = newStatus,
                              !.position = newPosition(destCards, index)]
           sortedCards == sortByPosition(replaceById(cards, draggableId, updatedCard))
           inRaw == /\ ~StartsWithPlan(draggableId)
                    /\ \E k \in DOMAIN rawCards : rawCards[k].id = draggableId
           sync == [NewTask(FreeTid(1), "syncCardToPlanner", "updatePlan") EXCEPT
                       !.plan = syncPlanUpdate(updatedCard, now), !.ret = "done",
                       !.local = TRUE]
           update == [NewTask(FreeTid(0), "updateCardDB",
                              IF StartsWithPlan(draggableId)
                              THEN "rc.updatePlan" ELSE "rc.update") EXCEPT
                         !.card = updatedCard, !.aux = cardLike, !.ret = "done",
                         !.local = TRUE, !.at = index]
       IN  /\ index \in 0..Len(destCards)
           /\ ~(cardLike.status = newStatus /\ sourceIndex = index)
           /\ rawCards' = IF inRaw
                          THEN replaceById(rawCards, draggableId, updatedCard)
                          ELSE rawCards
           /\ cards' = IF inRaw
                       THEN syncEffect(sortedCards, rawCards', plans,
                                       ignoredPlanIds, isLoading, now)
                       ELSE sortedCards
           /\ tasks' = tasks \cup {update} \cup
                 (IF updatedCard.linkedPlanId # NoPlanId THEN {sync} ELSE {})
    /\ nOps' = nOps + 1
    /\ unscheduled' = Forget(cards[i].id)
    /\ UNCHANGED <<now, remoteVars, plans, isLoading, isInitialized,
                   ignoredPlanIds, selectedCard, isSubmitting, error, nextUuid,
                   nFails, fnVars>>

\* A faulty variant of addCard: the new card is appended to the view before
\* createCard(newCard) is called.
addCardOptimistic(status) ==
    /\ ~ModalOpen
    /\ nOps < MaxOps
    /\ cards' = Append(cards, newCardOf(cards, status, Uuid(nextUuid), NewTitle))
    /\ tasks' = tasks \cup
          {[NewTask(FreeTid(0), "addCard", "createCard") EXCEPT
               !.aux = newCardOf(cards, status, Uuid(nextUuid), NewTitle),
               !.ret = "ac.finish", !.local = TRUE]}
    /\ nextUuid' = nextUuid + 1
    /\ nOps' = nOps + 1
    /\ UNCHANGED <<now, remoteVars, mirrorVars, ignoredPlanIds, selectedCard,
                   isSubmitting, error, nFails, histVars, fnVars>>

\* addCard(status) up to its await of createCard(newCard).
addCard(status) ==
    /\ ~ModalOpen
    /\ nOps < MaxOps
    /\ tasks' = tasks \cup
          {[NewTask(FreeTid(0), "addCard", "createCard") EXCEPT
               !.aux = newCardOf(cards, status, Uuid(nextUuid), NewTitle),
               !.ret = "ac.finish"]}
    /\ nextUuid' = nextUuid + 1
    /\ nOps' = nOps + 1
    /\ UNCHANGED <<now, remoteVars, mirrorVars, boardVars, nFails,
                   histVars, fnVars>>

\* addCard resumes: the new card is appended to the view when it was created.
AddCardFinish(t) ==
    /\ t.pc = "ac.finish"
    /\ cards' = IF t.ok THEN Append(cards, t.aux) ELSE cards
    /\ tasks' = tasks \ {t}
    /\ UNCHANGED <<now, remoteVars, mirrorVars, ignoredPlanIds, selectedCard,
                   isSubmitting, error, nextUuid, nOps, nFails, histVars, fnVars>>

(***************************************************************************)
(* The remote store when the page is opened, and the board's behaviour.    *)
(***************************************************************************)
Init ==
    /\ now = parseISO(2)
    /\ dbPlans = InitPlans
    /\ dbCards = InitCards
    /\ plans = <<>>
    /\ rawCards = <<>>
    /\ isLoading = TRUE
    /\ isInitialized = FALSE
    /\ cards = <<>>
    /\ ignoredPlanIds = {}
    /\ selectedCard = NoCard
    /\ isSubmitting = FALSE
    /\ error = ""
    /\ tasks = {NewTask(0, "initialLoad", "fetch")}
    /\ nextUuid = FirstUuid
    /\ nOps = 0
    /\ nFails = 0
    /\ cardWrites = {}
    /\ unscheduled = {}
    /\ fnPlan = NoPlan
    /\ fnOut = FnIdle

\* The user's operations.
UserOp ==
    \/ \E i \in DOMAIN cards : openCard(i)
    \/ \E edit \in Edits : handleSave(edit)
    \/ saveCardChanges
    \/ onClose
    \/ deleteCard
    \/ \E i \in DOMAIN cards, s \in DragDests, k \in 0..Len(cards) :
          handleDragEnd(i, s, k)
    \/ \E s \in AddDests : addCard(s)

\* The board: a user operation, or a call in flight takes its next step.
Next ==
    \/ UserOp
    \/ \E t \in tasks : FetchPlansRead(t)
    \/ \E t \in tasks : FetchCardsRead(t)
    \/ \E t \in tasks : RefreshAllDone(t)
    \/ \E table \in {"plans", "kanban_cards"} : Notified(table)
    \/ \E t \in tasks : RefreshPlansDone(t)
    \/ \E t \in tasks : RefreshCardsDone(t)
    \/ \E t \in tasks : DeletePlanUnlink(t)
    \/ \E t \in tasks : DeletePlanDelete(t)
    \/ \E t \in tasks : UpdatePlanCall(t)
    \/ \E t \in tasks : CreatePlanCall(t)
    \/ \E t \in tasks : CreateCardCall(t)
    \/ \E t \in tasks : DeleteCardCall(t)
    \/ \E t \in tasks : RemoteUpdatePlan(t)
    \/ \E t \in tasks : RemoteSelect(t)
    \/ \E t \in tasks : RemoteInsert(t)
    \/ \E t \in tasks : RemoteRetry(t)
    \/ \E t \in tasks : RemoteUpdate(t)
    \/ \E t \in tasks : UpdateCardAfterCreate(t)
    \/ \E t \in tasks : UpdateCardReplace(t)
    \/ \E t \in tasks : UpdateCardOptimistic(t)
    \/ \E t \in tasks : UpdateCardFinish(t)
    \/ \E t \in tasks : DeleteCardFinish(t)
    \/ \E t \in tasks : AddCardFinish(t)

Spec == Init /\ [][Next]_vars

(***************************************************************************)
(* The sequential schedule: an operation that issues remote calls starts   *)
(* only when no call is in flight.                                         *)
(***************************************************************************)
Quiet == tasks = {}

NextSeq ==
    \/ \E i \in DOMAIN cards : openCard(i)
    \/ Quiet /\ \E edit \in Edits : handleSave(edit)
    \/ Quiet /\ saveCardChanges
    \/ Quiet /\ deleteCard
    \/ Quiet /\ \E i \in DOMAIN cards, s \in DragDests, k \in 0..Len(cards) :
                   handleDragEnd(i, s, k)
    \/ Quiet /\ \E s \in AddDests : addCard(s)
    \/ \E t \in tasks : FetchPlansRead(t)
    \/ \E t \in tasks : FetchCardsRead(t)
    \/ \E t \in tasks : RefreshAllDone(t)
    \/ \E table \in {"plans", "kanban_cards"} : Notified(table)
    \/ \E t \in tasks : RefreshPlansDone(t)
    \/ \E t \in tasks : RefreshCardsDone(t)
    \/ \E t \in tasks : DeletePlanUnlink(t)
    \/ \E t \in tasks : DeletePlanDelete(t)
    \/ \E t \in tasks : UpdatePlanCall(t)
    \/ \E t \in tasks : CreatePlanCall(t)
    \/ \E t \in tasks : CreateCardCall(t)
    \/ \E t \in tasks : DeleteCardCall(t)
    \/ \E t \in tasks : RemoteUpdatePlan(t)
    \/ \E t \in tasks : RemoteSelect(t)
    \/ \E t \in tasks : RemoteInsert(t)
    \/ \E t \in tasks : RemoteUpdate(t)
    \/ \E t \in tasks : UpdateCardAfterCreate(t)
    \/ \E t \in tasks : UpdateCardReplace(t)
    \/ \E t \in tasks : UpdateCardOptimistic(t)
    \/ \E t \in tasks : UpdateCardFinish(t)
    \/ \E t \in tasks : DeleteCardFinish(t)
    \/ \E t \in tasks : AddCardFinish(t)

SpecSeq == Init /\ [][NextSeq]_vars

(***************************************************************************)
(* The conversions on their own: a stored plan and an instant are drawn,   *)
(* and one conversion is applied to the plan.                              *)
(***************************************************************************)
\* The rows of plans the planner page and the board can leave behind: a due
\* date is on or after the date, a plan with hasDueDate has one, and a plan
\* without hasDueDate may still hold the due date of an earlier edit.
FnPlans ==
    {[NoPlan EXCEPT !.id = 1, !.title = "p", !.date = d, !.hasDueDate = h,
                    !.dueDate = e, !.completed = c] :
        d \in Days, h \in BOOLEAN, e \in Days \cup {NullDate}, c \in BOOLEAN}

ValidPlan(plan) ==
    /\ Present(plan.dueDate) => plan.dueDate >= plan.date
    /\ plan.hasDueDate => Present(plan.dueDate)

InitFn ==
    /\ now \in Instants
    /\ fnPlan \in {plan \in FnPlans : ValidPlan(plan)}
    /\ fnOut = FnIdle
    /\ dbPlans = {fnPlan}
    /\ dbCards = {}
    /\ plans = <<fnPlan>>
    /\ rawCards = <<>>
    /\ isLoading = FALSE
    /\ isInitialized = TRUE
    /\ cards = deriveView(rawCards, plans, {}, now)
    /\ ignoredPlanIds = {}
    /\ selectedCard = NoCard
    /\ isSubmitting = FALSE
    /\ error = ""
    /\ tasks = {}
    /\ nextUuid = FirstUuid
    /\ nOps = 0
    /\ nFails = 0
    /\ cardWrites = {}
    /\ unscheduled = {}

TheRow(plansTable) == CHOOSE row \in plansTable : TRUE

\* determineCardStatus(fnPlan).
DeriveStatus ==
    /\ fnOut.op = "none"
    /\ fnOut' = [op |-> "determineCardStatus", plan |-> fnPlan,
                 status |-> determineCardStatus(fnPlan, now)]
    /\ UNCHANGED <<now, remoteVars, mirrorVars, boardVars, tasks, nextUuid,
                   nOps,
                   nFails, histVars, fnPlan>>

\* planToCard(fnPlan), then syncCardToPlanner of that card: updatePlan.
RoundTripSync ==
    /\ fnOut.op = "none"
    /\ dbPlans' = updatePlanRows(dbPlans,
                                 syncPlanUpdate(planToCard(fnPlan, now), now))
    /\ fnOut' = [op |-> "syncCardToPlanner", plan |-> TheRow(dbPlans'),
                 status |-> ""]
    /\ UNCHANGED <<now, dbCards, cardWrites, mirrorVars, boardVars, tasks,
                   nextUuid, nOps, nFails, histVars, fnPlan>>

\* planToCard(fnPlan), then the remote updateCard of that card: updatePlan.
RoundTripRemote ==
    /\ fnOut.op = "none"
    /\ dbPlans' = updatePlanRows(dbPlans,
                                 remotePlanUpdate(planToCard(fnPlan, now), now))
    /\ fnOut' = [op |-> "updateCard", plan |-> TheRow(dbPlans'), status |-> ""]
    /\ UNCHANGED <<now, dbCards, cardWrites, mirrorVars, boardVars, tasks,
                   nextUuid, nOps, nFails, histVars, fnPlan>>

\* The dates and the status a card of the board can be saved with.
CardDates == Days \cup {NoDate}
SavedStatuses == {"inbox", "pending", "in-progress"}

\* updateCard of the plan's card with the dates s and e: the status it gives
\* the card, and the row its updatePlan calls leave (syncCardToPlanner, and
\* for a virtual card the remote updateCard after it).
SaveDates(s, e, status, virtual) ==
    LET card == [planToCard(fnPlan, now) EXCEPT
                    !.id = IF virtual THEN @ ELSE Uuid(FirstUuid),
                    !.startDate = s, !.endDate = e, !.status = status]
        finalCard == finalCardOf(card, now)
        synced == updatePlanRows(dbPlans, syncPlanUpdate(finalCard, now))
    IN  /\ fnOut.op = "none"
        /\ dbPlans' = IF virtual
                      THEN updatePlanRows(synced,
                                          remotePlanUpdate(finalCard, now))
                      ELSE synced
        /\ fnOut' = [op |-> "autoCategorize", plan |-> TheRow(dbPlans'),
                     status |-> finalCard.status]
        /\ UNCHANGED <<now, dbCards, cardWrites, mirrorVars, boardVars, tasks,
                       nextUuid, nOps, nFails, histVars, fnPlan>>

\* A faulty variant of the calendar-day comparison: the target day itself
\* already counts as overdue.
isOverdueFromTargetDay(date, dueDate, completed, t) ==
    IF completed \/ ~Present(date) THEN FALSE
    ELSE LET targetDateStr == IF Present(dueDate) THEN dueDate ELSE date
         IN  parseISO(targetDateStr) <= startOfDay(t)

\* The second isOverdue of the sources: overdue once the target day is
\* before the start of the current day.
isOverdueCalendar(date, dueDate, completed, t) ==
    IF completed \/ ~Present(date) THEN FALSE
    ELSE LET today == startOfDay(t)
             targetDateStr == IF Present(dueDate) THEN dueDate ELSE date
         IN  parseISO(targetDateStr) < today

OverdueImpls == {"utils", "calendar"}
OverdueStr(b) == IF b THEN "overdue" ELSE "not-overdue"

\* isOverdue(date, fnPlan.dueDate, fnPlan.completed) by one of the two
\* implementations; date is the plan's date or none.
CallIsOverdue(impl, date) ==
    LET plan == [fnPlan EXCEPT !.date = date]
        result == IF impl = "utils"
                  THEN isOverdue(plan.date, plan.dueDate, plan.completed, now)
                  ELSE isOverdueCalendar(plan.date, plan.dueDate,
                                         plan.completed, now)
    IN  /\ fnOut.op = "none"
        /\ fnOut' = [op |-> "isOverdue." \o impl, plan |-> plan,
                     status |-> OverdueStr(result)]
        /\ UNCHANGED <<now, remoteVars, mirrorVars, boardVars, tasks,
                       nextUuid, nOps, nFails, histVars, fnPlan>>

NextFn ==
    \/ \E impl \in OverdueImpls, date \in {fnPlan.date, NoDate} :
          CallIsOverdue(impl, date)
    \/ DeriveStatus
    \/ RoundTripSync
    \/ RoundTripRemote
    \/ \E s \in Days, e \in CardDates, status \in SavedStatuses,
          virtual \in BOOLEAN : SaveDates(s, e, status, virtual)

SpecFn == InitFn /\ [][NextFn]_vars

(***************************************************************************)
(* Drags on their own: a loaded board without plans whose pending column   *)
(* holds two cards at positions drawn from 0..MaxPos, and a third card in  *)
(* the inbox; the completed column is empty.                               *)
(***************************************************************************)
PosCards(lo, hi) ==
    {[InitCard(1, "a", "pending", NoPlanId) EXCEPT !.position = lo],
     [InitCard(2, "b", "pending", NoPlanId) EXCEPT !.position = hi],
     InitCard(3, "c", "inbox", NoPlanId)}

InitPos ==
    /\ now = parseISO(2)
    /\ dbPlans = {}
    /\ \E lo, hi \in 0..MaxPos : dbCards = PosCards(lo, hi)
    /\ plans = <<>>
    /\ rawCards = fetchCards(dbCards)
    /\ isLoading = FALSE
    /\ isInitialized = TRUE
    /\ cards = deriveView(rawCards, plans, {}, now)
    /\ ignoredPlanIds = {}
    /\ selectedCard = NoCard
    /\ isSubmitting = FALSE
    /\ error = ""
    /\ tasks = {}
    /\ nextUuid = FirstUuid
    /\ nOps = 0
    /\ nFails = 0
    /\ cardWrites = {}
    /\ unscheduled = {}
    /\ fnPlan = NoPlan
    /\ fnOut = FnIdle

NextPos ==
    \/ \E i \in DOMAIN cards, s \in DragDests, k \in 0..Len(cards) :
          handleDragEnd(i, s, k)
    \/ \E t \in tasks : RemoteUpdate(t)

SpecPos == InitPos /\ [][NextPos]_vars

(***************************************************************************)
(* Attachments: updatePlan request by request.  Spec takes the three       *)
(* requests of updatePlan (update of the plans row, delete of the plan's   *)
(* plan_attachments rows, insert of the new ones) as one step; here each   *)
(* is a step of its own, on a loaded board where cards are only dragged.   *)
(* The attachments of a row of dbPlans are its plan_attachments rows.      *)
(***************************************************************************)
\* The update of the plans row alone.
updatePlanFields(plansTable, plan) ==
    {IF row.id = plan.id
     THEN [row EXCEPT
              !.title = plan.title,
              !.description = plan.description,
              !.date = plan.date,
              !.hasDueDate = plan.hasDueDate,
              !.dueDate = IF plan.dueDate = NoDate THEN @ ELSE plan.dueDate,
              !.completed = plan.completed]
     ELSE row : row \in plansTable}

\* The plan that call t hands to updatePlan: syncCardToPlanner's planUpdate,
\* or the planUpdate of the remote updateCard.
PlanOf(t) ==
    IF t.type = "syncCardToPlanner" THEN t.plan
    ELSE remotePlanUpdate(t.card, now)
\* Where call t goes on after updatePlan returned true.
AfterUpdatePlan(t) ==
    IF t.type = "syncCardToPlanner" THEN [t EXCEPT !.pc = t.ret, !.ok = TRUE]
    ELSE [t EXCEPT !.pc = "rc.select"]

\* updatePlan, first request: update of the row of plans.
UpdatePlanRow(t) ==
    /\ t.pc \in {"updatePlan", "rc.updatePlan"}
    /\ \E fail \in Failures :
        /\ dbPlans' = IF fail THEN dbPlans
                      ELSE updatePlanFields(dbPlans, PlanOf(t))
        /\ nFails' = Count(fail)
        /\ tasks' = Put(t, IF fail THEN [t EXCEPT !.pc = t.ret, !.ok = FALSE]
                           ELSE [t EXCEPT !.pc = "up.delete"])
    /\ UNCHANGED <<now, dbCards, cardWrites, mirrorVars, boardVars, nextUuid,
                   nOps, histVars, fnVars>>

\* updatePlan, second request: delete of the plan_attachments of the plan.
DeleteAttachments(t) ==
    /\ t.pc = "up.delete"
    /\ dbPlans' = {IF row.id = PlanOf(t).id THEN [row EXCEPT !.attachments = <<>>]
                   ELSE row : row \in dbPlans}
    /\ tasks' = Put(t, IF Len(PlanOf(t).attachments) > 0
                       THEN [t EXCEPT !.pc = "up.insert"]
                       ELSE AfterUpdatePlan(t))
    /\ UNCHANGED <<now, dbCards, cardWrites, mirrorVars, boardVars, nextUuid,
                   nOps, nFails, histVars, fnVars>>

\* updatePlan, third request: insert of the attachments under new ids.
InsertAttachments(t) ==
    /\ t.pc = "up.insert"
    /\ dbPlans' = {IF row.id = PlanOf(t).id
                   THEN [row EXCEPT !.attachments = @ \o PlanOf(t).attachments]
                   ELSE row : row \in dbPlans}
    /\ tasks' = Put(t, AfterUpdatePlan(t))
    /\ UNCHANGED <<now, dbCards, cardWrites, mirrorVars, boardVars, nextUuid,
                   nOps, nFails, histVars, fnVars>>

InitAtt ==
    /\ now = parseISO(2)
    /\ dbPlans = InitPlans
    /\ dbCards = InitCards
    /\ plans = fetchPlans(dbPlans)
    /\ rawCards = fetchCards(dbCards)
    /\ isLoading = FALSE
    /\ isInitialized = TRUE
    /\ cards = deriveView(rawCards, plans, {}, now)
    /\ ignoredPlanIds = {}
    /\ selectedCard = NoCard
    /\ isSubmitting = FALSE
    /\ error = ""
    /\ tasks = {}
    /\ nextUuid = FirstUuid
    /\ nOps = 0
    /\ nFails = 0
    /\ cardWrites = {}
    /\ unscheduled = {}
    /\ fnPlan = NoPlan
    /\ fnOut = FnIdle

NextAtt ==
    \/ \E i \in DOMAIN cards, s \in DragDests, k \in 0..Len(cards) :
          handleDragEnd(i, s, k)
    \/ \E t \in tasks : UpdatePlanRow(t)
    \/ \E t \in tasks : DeleteAttachments(t)
    \/ \E t \in tasks : InsertAttachments(t)
    \/ \E t \in tasks : RemoteSelect(t)
    \/ \E t \in tasks : RemoteInsert(t)
    \/ \E t \in tasks : RemoteUpdate(t)

SpecAtt == InitAtt /\ [][NextAtt]_vars

(***************************************************************************)
(* Refetches on their own: another client (the mobile app) renames cards   *)
(* in kanban_cards; each change is notified to the provider once its       *)
(* subscriptions exist, and the provider refetches.  The refetches are     *)
(* fair: a notification is delivered, a request is served, a response is   *)
(* handled.                                                                *)
(***************************************************************************)
NewTitles == {"x", "y"}

\* The mobile app's handleEditCard: update kanban_cards set title.  The
\* change is notified on the channel cards-changes if it is subscribed.
handleEditCard(id, title) ==
    /\ nOps < MaxOps
    /\ \E row \in dbCards : row.id = id /\ row.title # title
    /\ dbCards' = {IF row.id = id THEN [row EXCEPT !.title = title] ELSE row :
                      row \in dbCards}
    /\ tasks' = IF isInitialized
                THEN tasks \cup {NewTask(FreeTid(0), "refreshCards", "notify")}
                ELSE tasks
    /\ nOps' = nOps + 1
    /\ UNCHANGED <<now, dbPlans, cardWrites, mirrorVars, boardVars, nextUuid,
                   nFails, histVars, fnVars>>

\* The notification arrives: the handler calls refreshCards(true), which
\* issues fetchCards().
Delivered(t) ==
    /\ t.pc = "notify"
    /\ tasks' = Put(t, [t EXCEPT !.pc = "fetch"])
    /\ UNCHANGED <<now, remoteVars, mirrorVars, boardVars, nextUuid, nOps,
                   nFails, histVars, fnVars>>

NextRefetch ==
    \/ \E row \in dbCards, title \in NewTitles : handleEditCard(row.id, title)
    \/ \E t \in tasks : Delivered(t)
    \/ \E t \in tasks : FetchPlansRead(t)
    \/ \E t \in tasks : FetchCardsRead(t)
    \/ \E t \in tasks : RefreshAllDone(t)
    \/ \E t \in tasks : RefreshCardsDone(t)

Refetching ==
    \/ \E t \in tasks : Delivered(t)
    \/ \E t \in tasks : FetchPlansRead(t)
    \/ \E t \in tasks : FetchCardsRead(t)
    \/ \E t \in tasks : RefreshAllDone(t)
    \/ \E t \in tasks : RefreshCardsDone(t)

SpecRefetch == Init /\ [][NextRefetch]_vars /\ WF_vars(Refetching)

(***************************************************************************)
(* Properties.                                                             *)
(***************************************************************************)
RowIds(cardsTable) == {row.id : row \in cardsTable}
Linked(cardsTable, planId) == Cardinality(linkedRows(cardsTable, planId))
ViewHas(id) == \E i \in DOMAIN cards : cards[i].id = id
\* The call t takes the step that leaves its await.
Leaves(t) == ~\E u \in tasks' : u.tid = t.tid /\ u.pc = t.pc

\* C1: in every reachable state of the remote store, at most one row of
\* kanban_cards is linked to a plan P, for each plan P.
C1_AtMostOneRowPerPlan ==
    \A row \in dbCards :
        row.linkedPlanId # NoPlanId => Linked(dbCards, row.linkedPlanId) <= 1

\* C2: in every reachable state the derived view holds at most one entry
\* whose linkedPlanId is P, for each plan P.
C2_AtMostOneEntryPerPlan ==
    \A i, j \in DOMAIN cards :
        (i # j /\ cards[i].linkedPlanId # NoPlanId) =>
            cards[i].linkedPlanId # cards[j].linkedPlanId

\* C3: for every plan id in the ignore set the derived view holds no entry
\* with id plan-<id> and no entry with linkedPlanId = id.
C3_IgnoredPlansNotInView ==
    \A P \in ignoredPlanIds : \A i \in DOMAIN cards :
        cards[i].id # PlanCardId(P) /\ cards[i].linkedPlanId # P

\* C4: when the remote updateCard is called for plan-P with data that needs
\* a real card and no other call is in flight, a call that inserts leaves
\* exactly one row linked to P, and a call that finds the row of an earlier
\* call updates it and inserts nothing, so that exactly one row stays linked
\* to P; no step leaves two rows linked to one plan.
C4_SequentialPromotion ==
    [][/\ \A row \in dbCards' :
              row.linkedPlanId # NoPlanId =>
                  Linked(dbCards', row.linkedPlanId) <= 1
       /\ \A t \in tasks :
              (t.pc = "rc.insert" /\ Leaves(t) /\ Uuid(nextUuid) \in RowIds(dbCards'))
                  => Linked(dbCards', t.planId) = 1
       /\ \A t \in tasks :
              (t.pc = "rc.update" /\ t.found # Uuid(0) /\ Leaves(t))
                  => /\ RowIds(dbCards') = RowIds(dbCards)
                     /\ Linked(dbCards', t.planId) = 1]_vars

\* C4's case: the row a first call inserted for plan 2 carries what a second
\* call wrote to it (a position from a drag, a checklist from the modal).
C4_Witness ==
    /\ tasks = {}
    /\ Linked(dbCards, 2) = 1
    /\ \E row \in linkedRows(dbCards, 2) :
          /\ row.id.n >= FirstUuid
          /\ Len(row.checklist) > 0
          /\ row.position > 0

\* C5: after updateCard without a start date on a virtual card plan-P whose
\* plan had no linked card, all remote calls having succeeded: the new real
\* card exists without a plan link, P is deleted, P is in the ignore set from
\* before deletePlan is issued, and in every later state the derived view
\* holds the new real card and no entry plan-P.
C5_UnscheduleVirtual ==
    /\ \A t \in tasks : t.ret = "uc.replace" => t.planId \in ignoredPlanIds
    /\ \A u \in unscheduled :
          (u.bare /\ u.deleted) =>
              /\ \E row \in dbCards : row.id = u.card /\ row.linkedPlanId = NoPlanId
              /\ ~PlanExists(u.plan)
              /\ u.plan \in ignoredPlanIds
              /\ ViewHas(u.card)
              /\ ~ViewHas(PlanCardId(u.plan))

\* C6: planToCard followed by writing the unedited card back to the plan,
\* through syncCardToPlanner or through the remote updateCard, leaves the
\* plan's title, date, dueDate and hasDueDate as they were.
C6_RoundTripIdentity ==
    fnOut.op \in {"syncCardToPlanner", "updateCard"} =>
        /\ fnOut.plan.title = fnPlan.title
        /\ fnOut.plan.date = fnPlan.date
        /\ fnOut.plan.dueDate = fnPlan.dueDate
        /\ fnOut.plan.hasDueDate = fnPlan.hasDueDate

\* The status as the specification states it: end is dueDate if present, else
\* date.
ClaimedStatus(plan, t) ==
    LET today == todayStr(t)
        end == IF Present(plan.dueDate) THEN plan.dueDate ELSE plan.date
    IN  IF plan.completed THEN "completed"
        ELSE IF end < today \/ (plan.date <= today /\ today <= end)
        THEN "in-progress"
        ELSE IF plan.date > today THEN "pending"
        ELSE "inbox"

\* C7: determineCardStatus returns one of the four statuses, and it is
\* completed for a completed plan, else in-progress if end (dueDate if
\* present, else date) is before today or today lies in [date, end], else
\* pending if date is after today, else inbox.
C7_StatusAsClaimed ==
    fnOut.op = "determineCardStatus" =>
        /\ fnOut.status \in DefaultStatuses
        /\ fnOut.status = ClaimedStatus(fnPlan, now)

\* C8: no id with the prefix plan- is ever named by an insert or update of
\* kanban_cards, and every row of the table has a generated id.
C8_NoPlanIdPersisted ==
    /\ \A row \in dbCards : ~StartsWithPlan(row.id)
    /\ \A id \in cardWrites : ~StartsWithPlan(id)

\* C8's case: an update of a virtual card was persisted as a row with a
\* generated id, linked to the plan.
C8_Witness ==
    \E row \in dbCards : row.id.n >= FirstUuid /\ row.linkedPlanId # NoPlanId

\* The step of createCard that succeeds for the unschedule of a virtual card.
Unschedules(t) ==
    /\ t.type = "updateCard" /\ t.pc = "createCard"
    /\ \E u \in tasks' : u.tid = t.tid /\ u.pc = "uc.afterCreate" /\ u.ok

CarriedRow(t, row) ==
    /\ row.id = t.aux.id
    /\ ~StartsWithPlan(row.id)
    /\ row.title = t.arg.title
    /\ row.description = t.arg.description
    /\ row.checklist = t.arg.checklist
    /\ row.comments = t.arg.comments
    /\ row.attachments = t.arg.attachments
    /\ row.linkedPlanId = NoPlanId

C10_FailedCreateAborts ==
    [][\A t \in tasks :
          /\ (t.type = "updateCard" /\ t.pc = "createCard" /\ Leaves(t)
              /\ \E u \in tasks' : u.tid = t.tid /\ ~u.ok)
                 => (dbCards' = dbCards /\ dbPlans' = dbPlans)
          /\ (t.pc = "uc.afterCreate" /\ ~t.ok /\ Leaves(t))
                 => /\ dbPlans' = dbPlans
                    /\ PlanExists(t.sel) => \E row \in dbPlans' : row.id = t.sel
                    /\ ignoredPlanIds' = ignoredPlanIds
                    /\ plans' = plans
                    /\ rawCards' = rawCards
                    /\ error' = "Failed to unschedule card. Please try again."
                    /\ ~\E u \in tasks' : u.tid = t.tid]_vars

\* C10's case: createCard failed during an unschedule and the error is shown
\* while the plan is still stored and not ignored.
C10_Witness ==
    /\ error = "Failed to unschedule card. Please try again."
    /\ \E row \in dbPlans : row.id = 2
    /\ 2 \notin ignoredPlanIds
    /\ tasks = {}

\* Both mirrors hold what a full refetch of the store returns, and no call is
\* in flight.
Refetched ==
    /\ tasks = {}
    /\ ~isLoading
    /\ plans = fetchPlans(dbPlans)
    /\ rawCards = fetchCards(dbCards)

\* C11: when deletePlan failed during the unschedule of a virtual card after
\* the real card was created, the real card and the plan both stay in the
\* store, and after a full refetch the derived view holds the new real card
\* and an entry for the plan.
C11_FailedDeleteShowsBoth ==
    \A u \in unscheduled :
        (~u.deleted /\ Refetched /\ PlanExists(u.plan)) =>
            /\ \E row \in dbCards : row.id = u.card
            /\ ViewHas(u.card)
            /\ \E i \in DOMAIN cards : cards[i].linkedPlanId = u.plan

\* The step in which the remote updateCard that handleDragEnd called for its
\* updatedCard ends with an error.
DragWriteFails(t) ==
    /\ t.type = "updateCardDB"
    /\ nFails' = nFails + 1
    /\ ~\E u \in tasks' : u.tid = t.tid /\ u.type = "updateCardDB"

\* C12: when the remote write of handleDragEnd fails, the dragged card of
\* the view is back at its status and position of before the drag, and no
\* full refetch is started.
C12_FailedDragReverts ==
    [][\A t \in tasks : DragWriteFails(t) =>
          /\ \A i \in DOMAIN cards' :
                 cards'[i].id = t.aux.id =>
                     /\ cards'[i].status = t.aux.status
                     /\ cards'[i].position = t.aux.position
          /\ ~\E u \in tasks' \ tasks : u.type = "refreshAll"]_vars

\* C13: when the remote updateCard at the end of updateCard has failed, the
\* error message is set, and neither the store nor the mirrors nor the view
\* are touched: what the call did to the plan and to the mirrors stays.
C13_FailedPersistKeepsPlanSide ==
    [][\A t \in tasks :
          (t.pc = "uc.finish" /\ ~t.ok /\ Leaves(t)) =>
              /\ error' = "Could not update card in database."
              /\ dbPlans' = dbPlans /\ dbCards' = dbCards
              /\ plans' = plans /\ rawCards' = rawCards /\ cards' = cards
              /\ tasks' = tasks \ {t}]_vars

\* C13's case: the error is shown after a save that created a plan for a
\* card; the plan is stored, the card mirror holds the card linked to it,
\* and the card's row is not linked to it.
C13_Witness ==
    /\ error = "Could not update card in database."
    /\ tasks = {}
    /\ \E row \in dbPlans :
          /\ row.id >= FirstUuid
          /\ \E i \in DOMAIN rawCards : rawCards[i].linkedPlanId = row.id
          /\ linkedRows(dbCards, row.id) = {}

\* The step in which a request of the call t that writes to the store is
\* answered; the call issued it in its step before.
WritePcs ==
    {"createCard", "createPlan", "updatePlan", "dp.unlink", "dp.delete",
     "deleteCardDB", "rc.updatePlan", "rc.insert", "rc.retry", "rc.update"}
RemoteWrite(t) ==
    /\ t.type \in {"addCard", "updateCard", "deleteCard", "updateCardDB",
                   "syncCardToPlanner"}
    /\ t.pc \in WritePcs
    /\ Leaves(t)

\* C14 (amended): deleteCard and handleDragEnd set the mirror or the view
\* before their first write to the store; updateCard sets the mirrors (or
\* the ignore set) before it writes the card's row and before the deletePlan
\* of a virtual card's unschedule, but after its createPlan, updatePlan and
\* createCard; addCard sets the view only after createCard.
C14_LocalBeforeRemote ==
    [][\A t \in tasks : RemoteWrite(t) =>
          CASE t.type \in {"deleteCard", "updateCardDB", "syncCardToPlanner"} ->
                  t.local
            [] t.type = "updateCard" ->
                  t.local <=>
                     \/ t.pc \in {"rc.updatePlan", "rc.insert", "rc.retry",
                                  "rc.update"}
                     \/ t.ret = "uc.replace"
            [] t.type = "addCard" -> ~t.local]_vars

\* C14 as stated: every write to the store of the four operations comes
\* after the operation set a mirror or the view.
C14_AlwaysLocalFirst ==
    [][\A t \in tasks : RemoteWrite(t) => t.local]_vars

\* C14's case: createCard of addCard has stored the new card and the view
\* does not hold it yet.
C14_Witness ==
    \E t \in tasks :
        /\ t.type = "addCard" /\ t.pc = "ac.finish" /\ t.ok /\ ~t.local
        /\ \E row \in dbCards : row.id = t.aux.id
        /\ ~ViewHas(t.aux.id)

\* The call of updateCardDB that a drag starts in this step.
Dragged(u) == u \in tasks' \ tasks /\ u.type = "updateCardDB"
\* destCards of that drag.
DestCards(u) == columnCards(cards, u.card.status, u.card.id)
\* The drag inserts between two cards of the destination column.
Between(u) == u.at >= 1 /\ u.at < Len(DestCards(u))
Lo(u) == OrZero(DestCards(u)[u.at].position)
Hi(u) == OrZero(DestCards(u)[u.at + 1].position)

\* C15: when handleDragEnd inserts a card between two neighbours whose
\* positions lo and hi satisfy lo < hi, the new position p satisfies
\* lo < p < hi.
C15_StrictInterior ==
    [][\A u \in tasks' : (Dragged(u) /\ Between(u) /\ Lo(u) < Hi(u)) =>
          (Lo(u) < u.card.position /\ u.card.position < Hi(u))]_vars

\* C16: handleDragEnd assigns the moved card position 1000 when the
\* destination column has no other card, half of the first card's position
\* when dropped at index 0, the last card's position plus 1000 when dropped
\* at or past the end, and the arithmetic mean of the two neighbours
\* otherwise.
C16_PositionRule ==
    [][\A u \in tasks' : Dragged(u) =>
          LET d == DestCards(u)
              p == u.card.position
          IN  IF Len(d) = 0 THEN p = 1000
              ELSE IF u.at = 0 THEN 2 * p = OrZero(d[1].position)
              ELSE IF u.at >= Len(d)
              THEN p = OrZero(d[Len(d)].position) + 1000
              ELSE 2 * p = Lo(u) + Hi(u)]_vars

\* kanbanCards after plans.forEach(...) of the sync effect, run on the
\* mirrors as they are: entry i is what became of rawCards[i].
Synced == syncPlans(rawCards, plans, ignoredPlanIds, now, 1)
\* rawCards[i] is the real card the effect finds for plans[p] (findIndex:
\* the first card of the mirror linked to it), and that plan is not ignored.
LinkedTo(i, p) ==
    /\ plans[p].id \notin ignoredPlanIds
    /\ findLinkedIndex(rawCards, plans[p].id) = i

InMirror(planId) ==
    /\ planId \notin ignoredPlanIds
    /\ \E p \in DOMAIN plans : plans[p].id = planId
\* What the sync effect computes from the mirrors as they are.
\* A list of entries has no entry linked to a plan that is missing or
\* ignored, and shows every real card of the mirror that has no linkedPlanId.
Filtered(list) ==
    /\ \A k \in DOMAIN list :
          list[k].linkedPlanId # NoPlanId => InMirror(list[k].linkedPlanId)
    /\ \A i \in DOMAIN rawCards :
          rawCards[i].linkedPlanId = NoPlanId =>
              \E k \in DOMAIN list : list[k].id = rawCards[i].id

\* C18: the view never contains an entry whose linkedPlanId is set but does
\* not match a plan that is present in the plan mirror and absent from the
\* ignore set; real cards without linkedPlanId are always kept.
C18_ViewAlwaysFiltered == Filtered(cards)

\* The call t, at its select, finds no real card linked to the plan.
NoneLinked(t) == linkedRows(dbCards, StripPlanPrefix(t.card.id)) = {}
\* The step is a step of call t in which no remote request fails.
Succeeds(t) == Leaves(t) /\ nFails' = nFails
\* The card of the call carries data that a plan cannot hold.
CarriesData(t) ==
    \/ t.card.checklist # <<>>
    \/ t.card.comments # <<>>
    \/ t.card.position # NoPos
    \/ t.card.status = "completed"
\* The rows the step adds to kanban_cards.
Inserted == dbCards' \ dbCards

PlanIds == {row.id : row \in dbPlans}
\* updateCard(t.arg) of a card with a startDate ends in this step, and no
\* remote call has failed.
SavedWithDate(t) ==
    /\ t.type = "updateCard" /\ t.pc = "uc.finish" /\ Leaves(t)
    /\ t.ok /\ nFails = 0
    /\ Present(t.arg.startDate)

\* C20: after updateCard on a card with a startDate, when all remote calls
\* succeed: if the card had no linkedPlanId, exactly one new plan was created
\* from the card and the persisted card's linkedPlanId is that plan's id; if
\* it had a linkedPlanId, no plan is created and the linked plan's title,
\* date, dueDate and completed flag equal the card's title, startDate,
\* endDate and (status = completed).
C20_PlanFollowsCard ==
    [][/\ PlanIds' \ PlanIds # {} =>
            \E t \in tasks :
                /\ t.type = "updateCard" /\ t.pc = "createPlan" /\ Leaves(t)
                /\ t.arg.linkedPlanId = NoPlanId
                /\ PlanIds' \ PlanIds = {t.plan.id}
       /\ \A t \in tasks : SavedWithDate(t) =>
            IF t.arg.linkedPlanId = NoPlanId
            THEN /\ \E row \in dbPlans :
                       /\ row.id = t.plan.id
                       /\ row.title = t.card.title
                       /\ row.date = t.card.startDate
                       /\ row.completed = (t.card.status = "completed")
                 /\ \E c \in dbCards :
                       c.id = t.card.id /\ c.linkedPlanId = t.plan.id
            ELSE \E row \in dbPlans :
                       /\ row.id = t.arg.linkedPlanId
                       /\ row.title = t.card.title
                       /\ row.date = t.card.startDate
                       /\ row.dueDate = OrNull(t.card.endDate)
                       /\ row.completed = (t.card.status = "completed")]_vars

\* updateCard ends in this step after a successful remote updateCard, and
\* calls refreshAll(true).
RefreshesAfterUpdate(t) ==
    /\ t.type = "updateCard" /\ t.pc = "uc.finish" /\ t.ok /\ Leaves(t)
    /\ \E u \in tasks' : u.tid = t.tid /\ u.type = "refreshAll"

\* C21: the refreshAll(true) call that the board issues after a successful
\* card update is a silent refresh: it does not set the loading flag
\* isLoading to true, so view derivation is not paused by it.
C21_SilentRefresh ==
    [][\A t \in tasks : RefreshesAfterUpdate(t) => isLoading' = isLoading]_vars

\* The refetch that deleteCard of an entry linked to a plan started completes
\* in this step; deletePlan succeeded and no remote call has failed.
DeletedAndRefetched(t) ==
    /\ t.type = "refreshAll" /\ t.planId # NoPlanId /\ Leaves(t)
    /\ t.ok /\ nFails = 0

\* C22: after deleteCard(id) on a view entry with linkedPlanId P, once all
\* remote calls have succeeded and the mirrors have been refetched, the
\* remote store contains neither plan P nor any card row that was linked to
\* P, and the derived view contains no entry for that task.
C22_DeleteRemovesTask ==
    [][\A t \in tasks : DeletedAndRefetched(t) =>
          /\ \A row \in dbPlans' : row.id # t.planId
          /\ \A row \in dbCards' : row.id \notin t.rows
          /\ \A k \in DOMAIN cards' :
                /\ cards'[k].linkedPlanId # t.planId
                /\ cards'[k].id \notin t.rows]_vars

\* The rows of kanban_cards that stand for the task of unschedule u: the
\* card created by the unschedule and the rows that were linked to the plan.
TaskRows(u) == {row \in dbCards : row.id = u.card \/ row.id \in u.rows}
\* The positions of the view that show the task of unschedule u.
TaskEntries(u) ==
    {k \in DOMAIN cards :
        \/ cards[k].id = u.card
        \/ cards[k].id \in u.rows
        \/ cards[k].linkedPlanId = u.plan}

\* C23: after updateCard with absent startDate on a view entry plan-P for
\* which a real card linked to P already exists, once all remote calls have
\* succeeded and the mirrors have been refetched, exactly one card
\* representing that task exists in kanban_cards and exactly one entry for it
\* appears in the derived view.
C23_OneCardAfterUnschedule ==
    \A u \in unscheduled :
        (~u.bare /\ u.deleted /\ nFails = 0 /\ Refetched) =>
            /\ Cardinality(TaskRows(u)) = 1
            /\ Cardinality(TaskEntries(u)) = 1

\* C24: after handleDragEnd drops a card at destination index i of a column,
\* listing that column sorted by position ascending (getColumnCards) places
\* the moved card at index i, for every combination of existing positions in
\* the column, including cards whose position is 0, unset, or equal to a
\* neighbour's.
C24_LandsAtIndex ==
    [][\A u \in tasks' : Dragged(u) =>
          LET column == getColumnCards(cards', u.card.status)
          IN  /\ u.at + 1 \in DOMAIN column
              /\ column[u.at + 1].id = u.card.id]_vars

\* Every remote call that the drags issued has completed, none failed.
DragsDone == tasks = {} /\ nOps > 0 /\ nFails = 0
\* The attachments of the view's entry of plan planId.
CardAttachments(planId) ==
    LET k == CHOOSE k \in DOMAIN cards : cards[k].linkedPlanId = planId
    IN  cards[k].attachments

\* C25: after handleDragEnd on a plan-backed card and completion of every
\* remote call it issues, the plan_attachments rows of the linked plan are
\* exactly one row per attachment of the card, with no duplicates, for every
\* interleaving of the two updatePlan executions it starts.
C25_AttachmentsOnce ==
    DragsDone =>
        \A row \in dbPlans :
            (\E k \in DOMAIN cards : cards[k].linkedPlanId = row.id) =>
                row.attachments = CardAttachments(row.id)

\* The mirrors equal the contents of the remote tables.
MirrorsFresh ==
    /\ plans = fetchPlans(dbPlans)
    /\ rawCards = fetchCards(dbCards)

\* C26: if remote writes stop and every issued refetch eventually completes,
\* then eventually the local plan mirror and card mirror equal the contents
\* of the remote plans and cards tables, for every order in which the
\* responses of overlapping refetches arrive.
C26_EventuallyFresh == <>[]MirrorsFresh

\* Every linked entry of the list carries the plan- id of its plan.
LinkedUnderPlanId(list) ==
    \A i \in DOMAIN list :
        list[i].linkedPlanId # NoPlanId =>
            list[i].id = PlanCardId(list[i].linkedPlanId)

\* C27: every entry of the derived view that has linkedPlanId set has id
\* plan-<linkedPlanId>, entries backed by a real card included, so the id of
\* a real card linked to an existing, non-ignored plan never appears in the
\* view.
C27_LinkedEntriesUsePlanId == LinkedUnderPlanId(cards)

\* C28: for a card with a startDate whose status is neither completed nor a
\* custom section, the status updateCard computes and persists equals the
\* status determineCardStatus derives from the plan the same call writes,
\* for every start date, end date and current day.
C28_StatusAgreesWithPlan ==
    fnOut.op = "autoCategorize" =>
        fnOut.status = determineCardStatus(fnOut.plan, now)

\* C29: the two isOverdue implementations (end-of-day wall-clock comparison
\* and calendar-day comparison) return the same boolean for every date,
\* dueDate, completed flag and current instant.
C29_OverdueImplsAgree ==
    /\ fnOut.op = "isOverdue.utils" =>
           fnOut.status = OverdueStr(isOverdueCalendar(
               fnOut.plan.date, fnOut.plan.dueDate, fnOut.plan.completed, now))
    /\ fnOut.op = "isOverdue.calendar" =>
           fnOut.status = OverdueStr(isOverdue(
               fnOut.plan.date, fnOut.plan.dueDate, fnOut.plan.completed, now))

\* C29's case: the first instant after the target day, at which both
\* implementations turn to overdue; the target day is the due date.
C29_Witness ==
    /\ fnOut.op = "isOverdue.calendar"
    /\ fnOut.status = "overdue"
    /\ Present(fnOut.plan.dueDate)
    /\ now = parseISO(fnOut.plan.dueDate + 1)

\* The invariant of a plan: with hasDueDate the due date is present and not
\* before the date, without it there is no due date.
PlanInvariant(plan) ==
    /\ plan.hasDueDate => Present(plan.dueDate) /\ plan.dueDate >= plan.date
    /\ ~plan.hasDueDate => ~Present(plan.dueDate)

\* C30: for every plan that satisfies the plan invariant determineCardStatus
\* never returns inbox; the inbox fallback is reached only for plans that
\* violate the invariant.
C30_NoInboxForValidPlan ==
    fnOut.op = "determineCardStatus" /\ PlanInvariant(fnPlan) =>
        fnOut.status # "inbox"

\* C30's case: a plan that satisfies the invariant, is not completed and
\* lies wholly in the past, the only plans the rules before the fallback
\* could miss.
C30_Witness ==
    /\ fnOut.op = "determineCardStatus"
    /\ PlanInvariant(fnPlan)
    /\ ~fnPlan.completed
    /\ fnPlan.hasDueDate
    /\ fnPlan.dueDate < todayStr(now)
    /\ fnOut.status = "in-progress"

====
